---- MODULE Spec2Model ----
(***************************************************************************)
(* A model of the IMDb sentiment pipeline: the preprocessing notebook      *)
(* (src/src/data_preprocessing.ipynb), the training notebook               *)
(* (src/src/.ipynb_checkpoints/model_training-checkpoint.ipynb) and the    *)
(* web form the CI workflow posts to (src/.github/workflows/test.yml).     *)
(*                                                                         *)
(* Text is a sequence of characters; a character is an atom named by a     *)
(* short string ("a", "B", "7", "<", "LF" for a line feed, "NBSP" for a    *)
(* no-break space, "eacute" for a non-ASCII letter).                       *)
(***************************************************************************)
EXTENDS Integers, Sequences, FiniteSets, TLC

VARIABLES
    \* a single function call (the unit-level specifications)
    called, arg, ret,
    \* the files of ../data
    disk,
    \* the preprocessing notebook's kernel
    pcPre, data, tfidf, X,
    \* the seeded generator: the permutation RandomState(42) yields, by size
    rngPerm,
    \* the training notebook's kernel
    pcTrain, tX, y, train_idx, test_idx, X_train, X_test, y_train, y_test,
    model, y_pred, metrics, confusion_mat,
    \* what the save cell of the training notebook has printed
    save_output,
    \* the web application
    appState, appVectorizer, appModel, response,
    \* the preprocessing notebook's chart cells
    pcViz, positive_word_freq_df, fig_positive, negative_word_freq_df, fig_negative,
    \* runs of the notebooks: the number of the current run, what the first gave
    run, first_run,
    \* the CI job's step 'Run Flask app and test predictions'
    ciStep, clock, startup, http_status, curl_exit, step_exit

fnVars == <<called, arg, ret>>
preVars == <<pcPre, data, tfidf, X>>
trainVars == <<pcTrain, tX, y, train_idx, test_idx, X_train, X_test, y_train,
               y_test, model, y_pred, metrics, confusion_mat, save_output>>
appVars == <<appState, appVectorizer, appModel, response>>
vizVars == <<pcViz, positive_word_freq_df, fig_positive, negative_word_freq_df,
             fig_negative>>
runVars == <<run, first_run>>
ciVars == <<ciStep, clock, startup, http_status, curl_exit, step_exit>>
vars == <<fnVars, disk, preVars, rngPerm, trainVars, appVars, vizVars, runVars, ciVars>>

----------------------------------------------------------------------------
(* Bounds of the model *)

MaxLen == 4

MaxTokens == 3

MaxRows == 4

MaxLimit == 2

MaxLabels == 4

MaxRowsRerun == 3

----------------------------------------------------------------------------
(* Characters *)

LowerSeq ==
    <<"a","b","c","d","e","f","g","h","i","j","k","l","m",
      "n","o","p","q","r","s","t","u","v","w","x","y","z">>

UpperSeq ==
    <<"A","B","C","D","E","F","G","H","I","J","K","L","M",
      "N","O","P","Q","R","S","T","U","V","W","X","Y","Z">>

AsciiLower == {LowerSeq[i] : i \in 1..Len(LowerSeq)}

AsciiUpper == {UpperSeq[i] : i \in 1..Len(UpperSeq)}

\* what \s matches in a str pattern: ASCII and Unicode white space
Whitespace == {" ", "LF", "TAB", "CR", "NBSP"}

\* what . does not match without re.DOTALL
Newline == {"LF"}

\* str.lower() on one character
ToLower(c) ==
    IF c \in AsciiUpper
    THEN LowerSeq[CHOOSE i \in 1..Len(UpperSeq) : UpperSeq[i] = c]
    ELSE c

Min(S) == CHOOSE m \in S : \A n \in S : m <= n

----------------------------------------------------------------------------
(* clean_text *)

\* Where the match of <.*?> that starts at the "<" at i ends: the first ">"
\* after i, unless a line feed comes before it (0: no match starts at i).
TagEnd(s, i) ==
    LET close == {j \in (i+1)..Len(s) : s[j] = ">"}
    IN  IF close = {} THEN 0
        ELSE IF \E k \in (i+1)..(Min(close)-1) : s[k] \in Newline THEN 0
        ELSE Min(close)

RECURSIVE SubTags(_, _)
\* re.sub(r'<.*?>', '', text), scanning from position i
SubTags(s, i) ==
    IF i > Len(s) THEN <<>>
    ELSE IF s[i] = "<" /\ TagEnd(s, i) # 0 THEN SubTags(s, TagEnd(s, i) + 1)
    ELSE <<s[i]>> \o SubTags(s, i + 1)

KeepChar(c) == c \in AsciiLower \cup AsciiUpper \cup Whitespace

\* re.sub(r'[^a-zA-Z\s]', '', text)
SubNonLetters(s) == SelectSeq(s, KeepChar)

Lower_SwapCase(s) ==
    [i \in 1..Len(s) |->
        IF s[i] \in AsciiLower
        THEN UpperSeq[CHOOSE k \in 1..Len(LowerSeq) : LowerSeq[k] = s[i]]
        ELSE ToLower(s[i])]

\* text.lower()
Lower(s) == [i \in 1..Len(s) |-> ToLower(s[i])]

CleanText_NoLower(text) == SubNonLetters(SubTags(text, 1))

clean_text(text) == Lower(SubNonLetters(SubTags(text, 1)))

----------------------------------------------------------------------------
(* Values shared by the specifications *)

None == <<>>

Some(v) == <<v>>

RECURSIVE SeqsUpTo(_, _)
\* every sequence over S of length at most n
SeqsUpTo(S, n) ==
    IF n = 0 THEN {<<>>}
    ELSE LET shorter == SeqsUpTo(S, n - 1)
         IN  shorter \cup {Append(s, c) : s \in shorter, c \in S}

\* the characters the unit-level inputs are drawn from
Alphabet == {"a", "B", "7", "<", ">", " ", "LF", "!", "eacute"}

\* the chart cells are not run
VizOff ==
    /\ pcViz = "off"
    /\ positive_word_freq_df = None /\ fig_positive = None
    /\ negative_word_freq_df = None /\ fig_negative = None

\* the first run of the notebooks
FirstRun == run = 1 /\ first_run = None

\* no CI job
CiOff ==
    /\ ciStep = "off" /\ clock = 0 /\ startup = None
    /\ http_status = None /\ curl_exit = None /\ step_exit = None

Idle ==
    /\ disk = <<>>
    /\ pcPre = "off" /\ data = <<>> /\ tfidf = None /\ X = None
    /\ rngPerm = <<>>
    /\ pcTrain = "off" /\ tX = None /\ y = <<>>
    /\ train_idx = <<>> /\ test_idx = <<>>
    /\ X_train = None /\ X_test = None /\ y_train = <<>> /\ y_test = <<>>
    /\ model = None /\ y_pred = <<>> /\ metrics = None /\ confusion_mat = None
    /\ save_output = <<>>
    /\ appState = "off" /\ appVectorizer = None /\ appModel = None
    /\ response = None
    /\ VizOff /\ FirstRun /\ CiOff

----------------------------------------------------------------------------
(* SpecClean: clean_text applied to one string *)

InitClean ==
    /\ called = "none"
    /\ arg \in SeqsUpTo(Alphabet, MaxLen)
    /\ ret = None
    /\ Idle

CallCleanText ==
    /\ called = "none"
    /\ called' = "clean_text"
    /\ ret' = clean_text(arg)
    /\ UNCHANGED <<vizVars, runVars, ciVars, arg, disk, preVars, rngPerm, trainVars, appVars>>

NextClean == CallCleanText

SpecClean == InitClean /\ [][NextClean]_vars

----------------------------------------------------------------------------
(* Claims about clean_text (SpecClean) *)

\* C7: for every input string, clean_text returns a string that holds only
\* lowercase letters a-z and white space: no digit, punctuation mark,
\* uppercase letter, non-ASCII letter, "<" or ">" survives.
C7_OnlyLowercaseAndWhitespace ==
    called = "clean_text" =>
        \A i \in 1..Len(ret) : ret[i] \in AsciiLower \cup Whitespace

\* an input with an uppercase letter and a character that is dropped, cleaned
\* to a non-empty string
C7_Witness ==
    /\ called = "clean_text"
    /\ \E i \in 1..Len(arg) : arg[i] \in AsciiUpper
    /\ \E i \in 1..Len(arg) : arg[i] \in {"7", "!", "<", ">", "eacute"}
    /\ Len(ret) > 0

\* The closing ">" of the tag opened by the "<" at i: the first ">" after it,
\* line breaks included (0: the "<" is never closed).
ClosingBracket(s, i) ==
    LET close == {j \in (i+1)..Len(s) : s[j] = ">"}
    IN  IF close = {} THEN 0 ELSE Min(close)

RECURSIVE WithoutTags(_, _)
\* s from position i on with every tag, from "<" to its closing ">", deleted
WithoutTags(s, i) ==
    IF i > Len(s) THEN <<>>
    ELSE IF s[i] = "<" /\ ClosingBracket(s, i) # 0
         THEN WithoutTags(s, ClosingBracket(s, i) + 1)
    ELSE <<s[i]>> \o WithoutTags(s, i + 1)

\* C8: clean_text removes each HTML tag completely, from its "<" up to and
\* including its closing ">", also when the tag spans a line break, and
\* deletes no text outside tags as if it were a tag: the result is the
\* lowercased letters and white space of the text outside the tags.
C8_TagsRemovedCompletely ==
    called = "clean_text" =>
        ret = Lower(SubNonLetters(WithoutTags(arg, 1)))

----------------------------------------------------------------------------
(* SpecCleanTwice: clean_text applied to one string, then to its own result *)

\* clean_text(clean_text(s)): the second call takes the first call's result
CallCleanTextAgain ==
    /\ called = "clean_text"
    /\ called' = "clean_text(clean_text)"
    /\ ret' = clean_text(ret)
    /\ UNCHANGED <<vizVars, runVars, ciVars, arg, disk, preVars, rngPerm, trainVars, appVars>>

NextCleanTwice == CallCleanText \/ CallCleanTextAgain

SpecCleanTwice == InitClean /\ [][NextCleanTwice]_vars

\* C22: clean_text is idempotent: for every input string s,
\* clean_text(clean_text(s)) equals clean_text(s).
C22_CleanTextIdempotent ==
    /\ called = "clean_text(clean_text)" => ret = clean_text(arg)
    /\ called = "clean_text" => clean_text(ret) = ret

\* an input that the first call changes (an uppercase letter, a dropped
\* character) and whose twice-cleaned result is not empty
C22_Witness ==
    /\ called = "clean_text(clean_text)"
    /\ \E i \in 1..Len(arg) : arg[i] \in AsciiUpper
    /\ \E i \in 1..Len(arg) : arg[i] \in {"7", "!", "<", ">", "eacute"}
    /\ \E i \in 1..Len(ret) : ret[i] \in AsciiLower
    /\ \E i \in 1..Len(ret) : ret[i] \in Whitespace

----------------------------------------------------------------------------
(* Words: a token is a sequence of characters *)

\* stopwords.words('english'): the entries the sample texts can meet
StopWordList ==
    {<<"i">>, <<"m","e">>, <<"m","y">>, <<"i","t">>, <<"i","t","s">>,
     <<"i","s">>, <<"a","m">>, <<"a","r","e">>, <<"w","a","s">>, <<"a">>,
     <<"a","n">>, <<"t","h","e">>, <<"a","n","d">>, <<"t","h","i","s">>,
     <<"t","h","a","t">>, <<"o","f">>, <<"t","o">>, <<"i","n">>,
     <<"n","o","t">>, <<"s">>, <<"t">>}

\* stop_words = set(stopwords.words('english'))
stop_words == StopWordList

NotStopWord(word) == word \notin stop_words

RemoveStopwords_Inverted(tokens) == SelectSeq(tokens, LAMBDA word : word \in stop_words)

\* [word for word in tokens if word not in stop_words]
remove_stopwords(tokens) == SelectSeq(tokens, NotStopWord)

----------------------------------------------------------------------------
(* WordNetLemmatizer.lemmatize(word, pos): WordNet's morphy *)

\* the lemmas WordNet lists under a part of speech (the entries the sample
\* words can reach)
WordNetLemmas(pos) ==
    CASE pos = "n" ->
          {<<"f","i","l","m">>, <<"m","o","v","i","e">>, <<"g","o","o","d">>,
           <<"b","a","d">>, <<"r","u","n">>, <<"r","u","n","n","i","n","g">>,
           <<"b","e","t","t","e","r">>, <<"m","a","n">>, <<"t","h","e","r","e">>,
           <<"r","e","v","i","e","w","e","r">>}
      [] pos = "v" ->
          {<<"f","i","l","m">>, <<"r","u","n">>, <<"b","e","t","t","e","r">>,
           <<"b","e">>}
      [] pos = "a" ->
          {<<"g","o","o","d">>, <<"b","a","d">>, <<"b","e","t","t","e","r">>,
           <<"r","u","n","n","i","n","g">>, <<"w","e","l","l">>}

\* WordNet's exception lists (noun.exc, verb.exc, adj.exc): the irregular
\* forms and their lemmas
ExceptionForms(form, pos) ==
    CASE pos = "n" /\ form = <<"m","e","n">> -> <<<<"m","a","n">>>>
      [] pos = "v" /\ form = <<"r","u","n","n","i","n","g">> -> <<<<"r","u","n">>>>
      [] pos = "v" /\ form = <<"w","a","s">> -> <<<<"b","e">>>>
      [] pos = "a" /\ form = <<"b","e","t","t","e","r">> -> <<<<"g","o","o","d">>, <<"w","e","l","l">>>>
      [] OTHER -> <<>>

\* MORPHOLOGICAL_SUBSTITUTIONS: the suffix rules of each part of speech
Substitutions(pos) ==
    CASE pos = "n" ->
          <<<<<<"s">>, <<>>>>,
            <<<<"s","e","s">>, <<"s">>>>,
            <<<<"v","e","s">>, <<"f">>>>,
            <<<<"x","e","s">>, <<"x">>>>,
            <<<<"z","e","s">>, <<"z">>>>,
            <<<<"c","h","e","s">>, <<"c","h">>>>,
            <<<<"s","h","e","s">>, <<"s","h">>>>,
            <<<<"m","e","n">>, <<"m","a","n">>>>,
            <<<<"i","e","s">>, <<"y">>>>>>
      [] pos = "v" ->
          <<<<<<"s">>, <<>>>>,
            <<<<"i","e","s">>, <<"y">>>>,
            <<<<"e","s">>, <<"e">>>>,
            <<<<"e","s">>, <<>>>>,
            <<<<"e","d">>, <<"e">>>>,
            <<<<"e","d">>, <<>>>>,
            <<<<"i","n","g">>, <<"e">>>>,
            <<<<"i","n","g">>, <<>>>>>>
      [] pos = "a" ->
          <<<<<<"e","r">>, <<>>>>,
            <<<<"e","s","t">>, <<>>>>,
            <<<<"e","r">>, <<"e">>>>,
            <<<<"e","s","t">>, <<"e">>>>>>

EndsWith(form, old) ==
    /\ Len(form) >= Len(old)
    /\ SubSeq(form, Len(form) - Len(old) + 1, Len(form)) = old

RECURSIVE Flatten(_)
Flatten(ss) == IF ss = <<>> THEN <<>> ELSE Head(ss) \o Flatten(Tail(ss))

\* the rules of pos applied to one form, in the order of the rules
RulesOn(form, pos) ==
    LET sub == Substitutions(pos)
        hit(k) == IF EndsWith(form, sub[k][1])
                  THEN <<SubSeq(form, 1, Len(form) - Len(sub[k][1])) \o sub[k][2]>>
                  ELSE <<>>
    IN  Flatten([k \in 1..Len(sub) |-> hit(k)])

\* apply_rules(forms)
ApplyRules(forms, pos) == Flatten([k \in 1..Len(forms) |-> RulesOn(forms[k], pos)])

RECURSIVE FilterForms(_, _, _)
\* filter_forms(forms): the forms WordNet lists under pos, each once, in order
FilterForms(forms, pos, seen) ==
    IF forms = <<>> THEN <<>>
    ELSE IF Head(forms) \in WordNetLemmas(pos) /\ Head(forms) \notin seen
         THEN <<Head(forms)>> \o FilterForms(Tail(forms), pos, seen \cup {Head(forms)})
    ELSE FilterForms(Tail(forms), pos, seen)

RECURSIVE MorphyLoop(_, _)
\* while forms: forms = apply_rules(forms); return the first non-empty filter
MorphyLoop(forms, pos) ==
    IF forms = <<>> THEN <<>>
    ELSE LET next == ApplyRules(forms, pos)
             results == FilterForms(next, pos, {})
         IN  IF results # <<>> THEN results ELSE MorphyLoop(next, pos)

\* wn._morphy(form, pos)
Morphy(form, pos) ==
    IF ExceptionForms(form, pos) # <<>>
    THEN FilterForms(<<form>> \o ExceptionForms(form, pos), pos, {})
    ELSE LET forms == ApplyRules(<<form>>, pos)
             results == FilterForms(<<form>> \o forms, pos, {})
         IN  IF results # <<>> THEN results ELSE MorphyLoop(forms, pos)

\* min(lemmas, key=len): the first of the shortest
Shortest(lemmas) ==
    lemmas[Min({i \in 1..Len(lemmas) :
                   \A j \in 1..Len(lemmas) : Len(lemmas[i]) <= Len(lemmas[j])})]

\* lemmatizer.lemmatize(word, pos)
Lemmatize(word, pos) ==
    LET lemmas == Morphy(word, pos)
    IN  IF lemmas # <<>> THEN Shortest(lemmas) ELSE word

\* the part of speech lemmatize() takes when the caller gives none
DefaultPos == "n"

\* [lemmatizer.lemmatize(word) for word in tokens]
lemmatize_words(tokens) ==
    [i \in 1..Len(tokens) |-> Lemmatize(tokens[i], DefaultPos)]

----------------------------------------------------------------------------
(* The preprocessing notebook: tokenizing, joining, vectorizing *)

\* a Python str and a Python int held in a dataframe cell
PyStr(v) == [str |-> v]

PyInt(v) == [int |-> v]

Digits == {"0", "1", "2", "3", "4", "5", "6", "7", "8", "9"}

\* every character of the model
AllChars ==
    AsciiLower \cup AsciiUpper \cup Digits \cup Whitespace
        \cup {"<", ">", "/", "!", "_", "eacute"}

\* what \w matches in a str pattern
WordChars == AsciiLower \cup AsciiUpper \cup Digits \cup {"_", "eacute"}

RECURSIVE Runs(_, _, _)
\* the maximal runs in s of characters of the set inside, in order
Runs(s, inside, word) ==
    IF s = <<>> THEN (IF word = <<>> THEN <<>> ELSE <<word>>)
    ELSE IF Head(s) \notin inside
         THEN (IF word = <<>> THEN <<>> ELSE <<word>>) \o Runs(Tail(s), inside, <<>>)
    ELSE Runs(Tail(s), inside, Append(word, Head(s)))

\* the Treebank tokenizer's CONTRACTIONS2 that need no apostrophe: a word
\* that is split in two
Contraction(word) ==
    CASE word = <<"c","a","n","n","o","t">> -> <<<<"c","a","n">>, <<"n","o","t">>>>
      [] word = <<"g","i","m","m","e">> -> <<<<"g","i","m">>, <<"m","e">>>>
      [] word = <<"g","o","n","n","a">> -> <<<<"g","o","n">>, <<"n","a">>>>
      [] word = <<"g","o","t","t","a">> -> <<<<"g","o","t">>, <<"t","a">>>>
      [] word = <<"l","e","m","m","e">> -> <<<<"l","e","m">>, <<"m","e">>>>
      [] word = <<"w","a","n","n","a">> -> <<<<"w","a","n">>, <<"n","a">>>>
      [] OTHER -> <<word>>

\* nltk.word_tokenize on a cleaned text (letters and white space only)
word_tokenize(text) ==
    LET words == Runs(text, AllChars \ Whitespace, <<>>)
    IN  Flatten([i \in 1..Len(words) |-> Contraction(words[i])])

RECURSIVE Join(_)
\* ' '.join(tokens)
Join(tokens) ==
    IF tokens = <<>> THEN <<>>
    ELSE IF Len(tokens) = 1 THEN Head(tokens)
    ELSE Head(tokens) \o <<" ">> \o Join(Tail(tokens))

\* TfidfVectorizer(max_features=5000)
MaxFeatures == 5000

LongEnough(term) == Len(term) >= 2

\* the vectorizer's analyzer: lowercase, then token_pattern (?u)\b\w\w+\b
Analyze(doc) == SelectSeq(Runs(Lower(doc), WordChars, <<>>), LongEnough)

Count(seq, v) == Cardinality({i \in 1..Len(seq) : seq[i] = v})

Terms(doc) == {Analyze(doc)[i] : i \in 1..Len(Analyze(doc))}

RECURSIVE Sum(_, _)
Sum(f, S) ==
    IF S = {} THEN 0
    ELSE LET x == CHOOSE x \in S : TRUE IN f[x] + Sum(f, S \ {x})

Vocabulary_Uncapped(docs, max_features) ==
    UNION {Terms(docs[i]) : i \in 1..Len(docs)}

\* the vocabulary of the documents: every term, or the max_features terms
\* with the highest count over the corpus
Vocabulary(docs, max_features) ==
    LET all == UNION {Terms(docs[i]) : i \in 1..Len(docs)}
        tfs == [t \in all |-> Sum([i \in 1..Len(docs) |-> Count(Analyze(docs[i]), t)],
                                  1..Len(docs))]
    IN  IF Cardinality(all) <= max_features THEN all
        ELSE CHOOSE top \in SUBSET all :
                /\ Cardinality(top) = max_features
                /\ \A t \in top, u \in all \ top : tfs[t] >= tfs[u]

\* tfidf.fit(docs): the vocabulary and what fixes the idf weights, the
\* number of documents and each term's document frequency
FitVectorizer(docs, max_features) ==
    LET vocab == Vocabulary(docs, max_features)
    IN  [max_features |-> max_features,
         vocabulary |-> vocab,
         n_docs |-> Len(docs),
         df |-> [t \in vocab |-> Cardinality({i \in 1..Len(docs) : t \in Terms(docs[i])})]]

\* one row of tfidf.transform: the term counts over the vocabulary (the
\* weight of an entry is fixed by its count, the row and the idf weights)
TransformRow(vectorizer, doc) ==
    [t \in vectorizer.vocabulary |-> Count(Analyze(doc), t)]

\* tfidf.transform(docs): a matrix with one row per document
Transform(vectorizer, docs) ==
    [rows |-> [i \in 1..Len(docs) |-> TransformRow(vectorizer, docs[i])],
     n_docs |-> vectorizer.n_docs,
     df |-> vectorizer.df]

\* data[column] = values
WithColumn(df, column, values) ==
    [c \in DOMAIN df \cup {column} |-> IF c = column THEN values ELSE df[c]]

ToBinary_KeepsNumbers(x) ==
    IF x = PyStr("positive") \/ x = PyInt(1) THEN PyInt(1) ELSE PyInt(0)

ToBinary_Inverted(x) == IF x = PyStr("positive") THEN PyInt(0) ELSE PyInt(1)

\* lambda x: 1 if x == 'positive' else 0
ToBinary(x) == IF x = PyStr("positive") THEN PyInt(1) ELSE PyInt(0)

\* data['sentiment'].values as numbers
Values(series) == [i \in 1..Len(series) |-> series[i].int]

CSV == "IMDB Dataset.csv"

VectorizerFile == "vectorizer.pkl"

MatrixFile == "tfidf_matrix.pkl"

LabelsFile == "labels.npy"

ModelFile == "model.pkl"

\* open(path, 'wb') and dump: the file is created or replaced
WriteFile(files, path, content) ==
    [f \in DOMAIN files \cup {path} |-> IF f = path THEN content ELSE files[f]]

----------------------------------------------------------------------------
(* The preprocessing notebook: its cells, run in order *)

NbPreClean_AlsoReview ==
    /\ pcPre = "clean"
    /\ LET cleaned == [i \in 1..Len(disk[CSV]["review"]) |-> clean_text(disk[CSV]["review"][i])]
       IN  data' = WithColumn(WithColumn(disk[CSV], "cleaned_review", cleaned),
                              "review", cleaned)
    /\ pcPre' = "tokenize"
    /\ UNCHANGED <<vizVars, runVars, ciVars, fnVars, disk, tfidf, X, rngPerm, trainVars, appVars>>

\* cell 2: read the dataset and clean every review
NbPreClean ==
    /\ pcPre = "clean"
    /\ data' = WithColumn(disk[CSV], "cleaned_review",
                          [i \in 1..Len(disk[CSV]["review"]) |-> clean_text(disk[CSV]["review"][i])])
    /\ pcPre' = "tokenize"
    /\ UNCHANGED <<vizVars, runVars, ciVars, fnVars, disk, tfidf, X, rngPerm, trainVars, appVars>>

\* cell 3: tokenize every cleaned review
NbPreTokenize ==
    /\ pcPre = "tokenize"
    /\ data' = WithColumn(data, "tokens", [i \in 1..Len(data["cleaned_review"]) |-> word_tokenize(data["cleaned_review"][i])])
    /\ pcPre' = "stopwords"
    /\ UNCHANGED <<vizVars, runVars, ciVars, fnVars, disk, tfidf, X, rngPerm, trainVars, appVars>>

\* cell 4: drop the stop words of every token list
NbPreStopwords ==
    /\ pcPre = "stopwords"
    /\ data' = WithColumn(data, "tokens_no_stopwords",
                          [i \in 1..Len(data["tokens"]) |-> remove_stopwords(data["tokens"][i])])
    /\ pcPre' = "lemmatize"
    /\ UNCHANGED <<vizVars, runVars, ciVars, fnVars, disk, tfidf, X, rngPerm, trainVars, appVars>>

\* cell 5: lemmatize every token list
NbPreLemmatize ==
    /\ pcPre = "lemmatize"
    /\ data' = WithColumn(data, "lemmatized_tokens",
                          [i \in 1..Len(data["tokens_no_stopwords"]) |-> lemmatize_words(data["tokens_no_stopwords"][i])])
    /\ pcPre' = "vectorize"
    /\ UNCHANGED <<vizVars, runVars, ciVars, fnVars, disk, tfidf, X, rngPerm, trainVars, appVars>>

\* cell 6: join the tokens of every review, then fit the vectorizer on all
\* reviews and transform them; fit_transform raises ValueError on an empty
\* vocabulary
NbPreVectorize ==
    /\ pcPre = "vectorize"
    /\ LET joined == WithColumn(data, "final_review",
                                [i \in 1..Len(data["lemmatized_tokens"]) |-> Join(data["lemmatized_tokens"][i])])
           fitted == FitVectorizer(joined["final_review"], MaxFeatures)
       IN  /\ data' = joined
           /\ IF fitted.vocabulary = {}
              THEN /\ pcPre' = "error"
                   /\ tfidf' = Some([max_features |-> MaxFeatures])
                   /\ X' = X
              ELSE /\ pcPre' = "save"
                   /\ tfidf' = Some(fitted)
                   /\ X' = Some(Transform(fitted, joined["final_review"]))
    /\ UNCHANGED <<vizVars, runVars, ciVars, fnVars, disk, rngPerm, trainVars, appVars>>

\* cell 7: turn the labels into 0/1, then write the vectorizer, the matrix
\* and the labels
NbPreSave ==
    /\ pcPre = "save"
    /\ LET converted == WithColumn(data, "sentiment", [i \in 1..Len(data["sentiment"]) |-> ToBinary(data["sentiment"][i])])
       IN  /\ data' = converted
           /\ disk' = WriteFile(WriteFile(WriteFile(disk,
                          VectorizerFile, tfidf[1]),
                          MatrixFile, X[1]),
                          LabelsFile, Values(converted["sentiment"]))
    /\ pcPre' = "done"
    /\ UNCHANGED <<vizVars, runVars, ciVars, fnVars, tfidf, X, rngPerm, trainVars, appVars>>

----------------------------------------------------------------------------
(* The preprocessing notebook: the word-frequency charts *)

\* wordcloud.STOPWORDS, the entries a review of the model can hold
WordCloudStopwords ==
    {<<"i">>, <<"m","e">>, <<"m","y">>, <<"i","t">>, <<"i","t","s">>,
     <<"i","s">>, <<"a","m">>, <<"a","r","e">>, <<"w","a","s">>, <<"a">>,
     <<"a","n">>, <<"t","h","e">>, <<"a","n","d">>, <<"t","h","i","s">>,
     <<"t","h","a","t">>, <<"o","f">>, <<"t","o">>, <<"i","n">>,
     <<"n","o","t">>, <<"l","i","k","e">>, <<"j","u","s","t">>}

\* px.bar(df.head(20)): the number of rows a chart shows
TopWords == 20

\* WordCloud(collocation_threshold=30), the default
CollocationThreshold == 30

\* word.lower() not in stopwords
NotWordCloudStopword(word) == Lower(word) \notin WordCloudStopwords

\* not word.isdigit()
NotNumber(word) == \E i \in 1..Len(word) : word[i] \notin Digits

\* key[:-1]
Singular(key) == SubSeq(key, 1, Len(key) - 1)

\* process_tokens, normalize_plurals: a key that ends in one 's' and whose
\* singular is a key too is merged into the singular
IsMergedPlural(key, keys) ==
    /\ Len(key) >= 1 /\ key[Len(key)] = "s"
    /\ ~(Len(key) >= 2 /\ key[Len(key) - 1] = "s")
    /\ Singular(key) \in keys

\* process_tokens: standard_cases, the key a word is counted under
StandardForm(word, keys) == IF IsMergedPlural(word, keys) THEN Singular(word) ELSE word

\* process_tokens: fused_cases, the count of every key that is kept
ProcessTokens(words) ==
    LET keys == {words[i] : i \in 1..Len(words)}
    IN  [key \in {StandardForm(w, keys) : w \in keys} |->
            Cardinality({i \in 1..Len(words) : StandardForm(words[i], keys) = key})]

\* unigrams_and_bigrams: the pairs of neighbouring words, neither a stop
\* word, each joined by a space
Bigrams(words) ==
    LET at == SelectSeq([i \in 1..(Len(words) - 1) |-> i],
                        LAMBDA i : NotWordCloudStopword(words[i])
                                     /\ NotWordCloudStopword(words[i + 1]))
    IN  [k \in 1..Len(at) |-> words[at[k]] \o <<" ">> \o words[at[k] + 1]]

\* unigrams_and_bigrams: the counts that result when the bigrams of the set
\* collocations score above the threshold; each collocation is counted as an
\* entry and discounted from its two words, and entries whose count is not
\* positive are deleted
CountsWith(words, collocations) ==
    LET unigrams == SelectSeq(words, NotWordCloudStopword)
        keys == {unigrams[i] : i \in 1..Len(unigrams)}
        counts_unigrams == ProcessTokens(unigrams)
        counts_bigrams == ProcessTokens(Bigrams(words))
        word1(b) == StandardForm(Runs(b, AllChars \ {" "}, <<>>)[1], keys)
        word2(b) == StandardForm(Runs(b, AllChars \ {" "}, <<>>)[2], keys)
        discounted(w) ==
            counts_unigrams[w]
              - Sum([b \in collocations |-> IF word1(b) = w THEN counts_bigrams[b] ELSE 0],
                    collocations)
              - Sum([b \in collocations |-> IF word2(b) = w THEN counts_bigrams[b] ELSE 0],
                    collocations)
        counted == [e \in DOMAIN counts_unigrams \cup collocations |->
                       IF e \in collocations THEN counts_bigrams[e] ELSE discounted(e)]
    IN  [e \in {e \in DOMAIN counted : counted[e] > 0} |-> counted[e]]

\* unigrams_and_bigrams: the bigrams that can score above the threshold. The
\* score is 0 when one of the two words is every counted word of the text.
\* Otherwise it is a floating-point likelihood ratio: for two different
\* words it is at most 2 n_words ln 2 < 1.4 n_words, so it cannot exceed the
\* threshold unless 14 n_words > 10 threshold; for a word followed by
\* itself the model leaves the outcome open.
EligibleBigrams(words) ==
    LET unigrams == SelectSeq(words, NotWordCloudStopword)
        keys == {unigrams[i] : i \in 1..Len(unigrams)}
        counts_unigrams == ProcessTokens(unigrams)
        word1(b) == StandardForm(Runs(b, AllChars \ {" "}, <<>>)[1], keys)
        word2(b) == StandardForm(Runs(b, AllChars \ {" "}, <<>>)[2], keys)
    IN  {b \in DOMAIN ProcessTokens(Bigrams(words)) :
            /\ Len(unigrams) > counts_unigrams[word1(b)]
            /\ Len(unigrams) > counts_unigrams[word2(b)]
            /\ \/ word1(b) = word2(b)
               \/ 14 * Len(unigrams) > 10 * CollocationThreshold}

\* WordCloud(stopwords=STOPWORDS).process_text(text): the word counts it can
\* give, one per set of bigrams taken as collocations
ProcessText(text) ==
    LET words == SelectSeq(Runs(text, WordChars, <<>>), NotNumber)
    IN  {CountsWith(words, collocations) :
            collocations \in SUBSET EligibleBigrams(words)}

ReviewsLabelled_Any(df, label) == df["cleaned_review"]

\* data[data['sentiment'] == label]['cleaned_review']
ReviewsLabelled(df, label) ==
    LET at == SelectSeq([i \in 1..Len(df["sentiment"]) |-> i],
                        LAMBDA i : df["sentiment"][i] = PyInt(label))
    IN  [k \in 1..Len(at) |-> df["cleaned_review"][at[k]]]

\* pd.DataFrame(frequencies.items(), columns=["word", "count"])
\*   .sort_values(by="count", ascending=False): the rows in an order of
\* non-increasing count; the order of rows of equal count is not fixed
SortedByCount(frequencies) ==
    LET rows == {[word |-> w, count |-> frequencies[w]] : w \in DOMAIN frequencies}
        n == Cardinality(rows)
    IN  {order \in [1..n -> rows] :
            /\ \A i, j \in 1..n : i # j => order[i] # order[j]
            /\ \A i, j \in 1..n : i < j => order[i].count >= order[j].count}

\* df.head(n)
HeadRows(df, n) == SubSeq(df, 1, IF n <= Len(df) THEN n ELSE Len(df))

\* cell 8: the word counts of the reviews labelled 1, sorted, and the chart
\* of the first 20; generate raises ValueError when no word is counted
NbPrePositiveChart ==
    /\ pcPre = "done" /\ pcViz = "positive"
    /\ \E frequencies \in ProcessText(Join(ReviewsLabelled(data, 1))) :
          IF DOMAIN frequencies = {}
          THEN /\ pcViz' = "error"
               /\ UNCHANGED <<positive_word_freq_df, fig_positive>>
          ELSE \E sorted \in SortedByCount(frequencies) :
               /\ pcViz' = "negative"
               /\ positive_word_freq_df' = Some(sorted)
               /\ fig_positive' = Some(HeadRows(sorted, TopWords))
    /\ UNCHANGED <<negative_word_freq_df, fig_negative, runVars, ciVars, fnVars,
                   disk, preVars, rngPerm, trainVars, appVars>>

\* cell 9: the same for the reviews labelled 0
NbPreNegativeChart ==
    /\ pcPre = "done" /\ pcViz = "negative"
    /\ \E frequencies \in ProcessText(Join(ReviewsLabelled(data, 0))) :
          IF DOMAIN frequencies = {}
          THEN /\ pcViz' = "error"
               /\ UNCHANGED <<negative_word_freq_df, fig_negative>>
          ELSE \E sorted \in SortedByCount(frequencies) :
               /\ pcViz' = "done"
               /\ negative_word_freq_df' = Some(sorted)
               /\ fig_negative' = Some(HeadRows(sorted, TopWords))
    /\ UNCHANGED <<positive_word_freq_df, fig_positive, runVars, ciVars, fnVars,
                   disk, preVars, rngPerm, trainVars, appVars>>

----------------------------------------------------------------------------
(* SpecTokens: remove_stopwords and lemmatize_words applied to one list *)

\* the tokens the unit-level token lists are drawn from
TokenPool ==
    {<<"t","h","e">>, <<"T","h","e">>, <<"i","s">>, <<"g","o","o","d">>,
     <<"f","i","l","m","s">>, <<"b","a","d">>,
     <<"r","u","n","n","i","n","g">>, <<"b","e","t","t","e","r">>}

InitTokens ==
    /\ called = "none"
    /\ arg \in SeqsUpTo(TokenPool, MaxTokens)
    /\ ret = None
    /\ Idle

CallRemoveStopwords ==
    /\ called = "none"
    /\ called' = "remove_stopwords"
    /\ ret' = remove_stopwords(arg)
    /\ UNCHANGED <<vizVars, runVars, ciVars, arg, disk, preVars, rngPerm, trainVars, appVars>>

CallLemmatizeWords ==
    /\ called = "none"
    /\ called' = "lemmatize_words"
    /\ ret' = lemmatize_words(arg)
    /\ UNCHANGED <<vizVars, runVars, ciVars, arg, disk, preVars, rngPerm, trainVars, appVars>>

NextTokens == CallRemoveStopwords \/ CallLemmatizeWords

SpecTokens == InitTokens /\ [][NextTokens]_vars

----------------------------------------------------------------------------
(* Claims about the token functions (SpecTokens) *)

\* the positions of tokens that hold no stop-list word, and the k-th of them
KeptPositions(tokens) == {i \in 1..Len(tokens) : tokens[i] \notin StopWordList}

KthKept(tokens, k) ==
    CHOOSE i \in KeptPositions(tokens) :
        Cardinality({j \in KeptPositions(tokens) : j <= i}) = k

\* C10: for every token list, remove_stopwords returns exactly the tokens
\* that are not in the stop-word set, in their original order and with
\* their multiplicities: no stop-list word remains and no other token is
\* dropped.
C10_ExactlyTheNonStopWords ==
    called = "remove_stopwords" =>
        /\ Len(ret) = Cardinality(KeptPositions(arg))
        /\ \A k \in 1..Len(ret) : ret[k] = arg[KthKept(arg, k)]
        /\ \A k \in 1..Len(ret) : ret[k] \notin StopWordList

\* a list with a stop word between two occurrences of the same kept token
C10_Witness ==
    /\ called = "remove_stopwords"
    /\ Len(arg) = 3
    /\ arg[1] = arg[3]
    /\ arg[1] \notin StopWordList
    /\ arg[2] \in StopWordList
    /\ ret = <<arg[1], arg[3]>>

\* C9: lemmatization reduces each token to its dictionary base form with a
\* part-of-speech-aware lookup: the verb form 'running' becomes 'run' and
\* the adjective 'better' becomes 'good'.
C9_RunningRunBetterGood ==
    called = "lemmatize_words" =>
        \A i \in 1..Len(arg) :
            /\ arg[i] = <<"r","u","n","n","i","n","g">> => ret[i] = <<"r","u","n">>
            /\ arg[i] = <<"b","e","t","t","e","r">> => ret[i] = <<"g","o","o","d">>

----------------------------------------------------------------------------
(* The training notebook: split, fit, metrics *)

\* train_test_split(test_size=0.2): the fraction 1/5
TestSizeNum == 1

TestSizeDen == 5

\* LogisticRegression(max_iter=1000, random_state=42)
MaxIter == 1000

ModelSeed == 42

NTest_Floor(n) == (TestSizeNum * n) \div TestSizeDen

\* n_test = ceil(test_size * n_samples)
NTest(n) == (TestSizeNum * n + TestSizeDen - 1) \div TestSizeDen

\* n_train = n_samples - n_test (train_size=None)
NTrain(n) == n - NTest(n)

TestIndices_Overlapping(permutation, n) == SubSeq(permutation, 1, NTest(n) + 1)

\* ind_test = permutation[:n_test]
TestIndices(permutation, n) == SubSeq(permutation, 1, NTest(n))

\* ind_train = permutation[n_test:(n_test + n_train)]
TrainIndices(permutation, n) == SubSeq(permutation, NTest(n) + 1, NTest(n) + NTrain(n))

SelectRows_OwnStatistics(matrix, idx) ==
    [rows |-> [k \in 1..Len(idx) |-> matrix.rows[idx[k]]],
     n_docs |-> Len(idx),
     df |-> [t \in DOMAIN matrix.df |->
                Cardinality({k \in 1..Len(idx) : matrix.rows[idx[k]][t] > 0})]]

\* the rows of a matrix at the given indices, in that order
SelectRows(matrix, idx) ==
    [rows |-> [k \in 1..Len(idx) |-> matrix.rows[idx[k]]],
     n_docs |-> matrix.n_docs,
     df |-> matrix.df]

\* the entries of a vector at the given indices, in that order
SelectEntries(vector, idx) == [k \in 1..Len(idx) |-> vector[idx[k]]]

\* the values the library takes for a parameter the caller does not pass:
\* TfidfVectorizer(max_features=None), train_test_split(test_size=None), which
\* is a quarter, and random_state=None, LogisticRegression(max_iter=100)
DefaultMaxFeatures == None

DefaultTestSizeNum == 1

DefaultTestSizeDen == 4

DefaultRandomState == None

DefaultMaxIter == 100

Fit_DefaultMaxIter(Xtr, ytr) ==
    [classes |-> {ytr[k] : k \in 1..Len(ytr)},
     max_iter |-> DefaultMaxIter,
     random_state |-> ModelSeed,
     X |-> Xtr,
     y |-> ytr]

\* model.fit(X_train, y_train): the fitted estimator is fixed by its
\* parameters and the training rows and labels
Fit(Xtr, ytr) ==
    [classes |-> {ytr[k] : k \in 1..Len(ytr)},
     max_iter |-> MaxIter,
     random_state |-> ModelSeed,
     X |-> Xtr,
     y |-> ytr]

\* The results model.predict can give on the rows: one class of the fitted
\* model per row, the same class for equal rows.
Predictions(fitted, rows) ==
    LET distinct == {rows[i] : i \in 1..Len(rows)}
    IN  {[i \in 1..Len(rows) |-> f[rows[i]]] : f \in [distinct -> fitted.classes]}

CountPairs(y_true, predicted, t, p) ==
    Cardinality({i \in 1..Len(y_true) : y_true[i] = t /\ predicted[i] = p})

\* accuracy_score: correct predictions over all, as <<numerator, denominator>>
accuracy_score(y_true, predicted) ==
    <<Cardinality({i \in 1..Len(y_true) : y_true[i] = predicted[i]}), Len(y_true)>>

\* precision_score (pos_label=1): tp / (tp + fp)
precision_score(y_true, predicted) ==
    <<CountPairs(y_true, predicted, 1, 1),
      CountPairs(y_true, predicted, 1, 1) + CountPairs(y_true, predicted, 0, 1)>>

\* recall_score (pos_label=1): tp / (tp + fn)
recall_score(y_true, predicted) ==
    <<CountPairs(y_true, predicted, 1, 1),
      CountPairs(y_true, predicted, 1, 1) + CountPairs(y_true, predicted, 1, 0)>>

\* f1_score (pos_label=1): 2 tp / (2 tp + fp + fn)
f1_score(y_true, predicted) ==
    <<2 * CountPairs(y_true, predicted, 1, 1),
      2 * CountPairs(y_true, predicted, 1, 1) + CountPairs(y_true, predicted, 0, 1)
          + CountPairs(y_true, predicted, 1, 0)>>

RECURSIVE Sorted(_)
\* the numbers of S in increasing order
Sorted(S) == IF S = {} THEN <<>> ELSE <<Min(S)>> \o Sorted(S \ {Min(S)})

\* unique_labels(y_true, y_pred): the labels that occur, sorted
UniqueLabels(y_true, predicted) ==
    Sorted({y_true[i] : i \in 1..Len(y_true)} \cup {predicted[i] : i \in 1..Len(predicted)})

\* confusion_matrix(y_true, y_pred) with labels=None: one row and one column
\* per label that occurs; cells[i][j] counts the rows of true label i
\* predicted as label j
confusion_matrix(y_true, predicted) ==
    LET labels == UniqueLabels(y_true, predicted)
    IN  [labels |-> labels,
         cells |-> [i \in 1..Len(labels) |-> [j \in 1..Len(labels) |->
                     CountPairs(y_true, predicted, labels[i], labels[j])]]]

----------------------------------------------------------------------------
(* The training notebook: its cells, run in order *)

\* cell 2: load the matrix and the labels; a missing file raises
NbTrainLoad ==
    /\ pcTrain = "load"
    /\ IF MatrixFile \notin DOMAIN disk
       THEN pcTrain' = "error" /\ UNCHANGED <<tX, y>>
       ELSE IF LabelsFile \notin DOMAIN disk
       THEN pcTrain' = "error" /\ tX' = Some(disk[MatrixFile]) /\ y' = y
       ELSE /\ pcTrain' = "split"
            /\ tX' = Some(disk[MatrixFile])
            /\ y' = disk[LabelsFile]
    /\ UNCHANGED <<vizVars, runVars, ciVars, fnVars, disk, preVars, rngPerm, train_idx, test_idx, X_train,
                   X_test, y_train, y_test, model, y_pred, metrics, confusion_mat, appVars>>
    /\ UNCHANGED save_output

\* every order of the rows 1..n
RowOrders(n) ==
    {p \in [1..n -> 1..n] : \A i, j \in 1..n : i # j => p[i] # p[j]}

SeededPermutations_Unseeded(drawn, n) == RowOrders(n)

\* RandomState(42).permutation(n): fixed by the seed, so the order drawn for
\* n rows is drawn again whenever n rows are split
SeededPermutations(drawn, n) ==
    IF n \in DOMAIN drawn THEN {drawn[n]} ELSE RowOrders(n)

\* cell 3: train_test_split(X, y, test_size=0.2, random_state=42); it raises
\* ValueError when X and y differ in length or the training set would be empty
NbTrainSplit ==
    /\ pcTrain = "split"
    /\ LET n == Len(tX[1].rows)
       IN  IF Len(y) # n \/ NTrain(n) = 0
           THEN /\ pcTrain' = "error"
                /\ UNCHANGED <<rngPerm, train_idx, test_idx, X_train, X_test,
                               y_train, y_test>>
           ELSE \E permutation \in SeededPermutations(rngPerm, n) :
                /\ pcTrain' = "fit"
                /\ rngPerm' = (n :> permutation) @@ rngPerm
                /\ test_idx' = TestIndices(permutation, n)
                /\ train_idx' = TrainIndices(permutation, n)
                /\ X_train' = Some(SelectRows(tX[1], TrainIndices(permutation, n)))
                /\ X_test' = Some(SelectRows(tX[1], TestIndices(permutation, n)))
                /\ y_train' = SelectEntries(y, TrainIndices(permutation, n))
                /\ y_test' = SelectEntries(y, TestIndices(permutation, n))
    /\ UNCHANGED <<vizVars, runVars, ciVars, fnVars, disk, preVars, tX, y, model, y_pred, metrics,
                   confusion_mat, appVars>>
    /\ UNCHANGED save_output

NbTrainFit_OnAllRows ==
    /\ pcTrain = "fit"
    /\ IF Cardinality({y[k] : k \in 1..Len(y)}) < 2
       THEN pcTrain' = "error" /\ model' = model
       ELSE pcTrain' = "evaluate" /\ model' = Some(Fit(tX[1], y))
    /\ UNCHANGED <<vizVars, runVars, ciVars, fnVars, disk, preVars, rngPerm, tX, y, train_idx, test_idx,
                   X_train, X_test, y_train, y_test, y_pred, metrics, confusion_mat,
                   appVars>>
    /\ UNCHANGED save_output

\* cell 4: fit the logistic regression on the training rows; fit raises
\* ValueError when the training labels hold a single class
NbTrainFit ==
    /\ pcTrain = "fit"
    /\ IF Cardinality({y_train[k] : k \in 1..Len(y_train)}) < 2
       THEN pcTrain' = "error" /\ model' = model
       ELSE pcTrain' = "evaluate" /\ model' = Some(Fit(X_train[1], y_train))
    /\ UNCHANGED <<vizVars, runVars, ciVars, fnVars, disk, preVars, rngPerm, tX, y, train_idx, test_idx,
                   X_train, X_test, y_train, y_test, y_pred, metrics, confusion_mat,
                   appVars>>
    /\ UNCHANGED save_output

\* cell 5: predict the test rows and compute the metrics
NbTrainEvaluate ==
    /\ pcTrain = "evaluate"
    /\ \E predicted \in Predictions(model[1], X_test[1].rows) :
        /\ y_pred' = predicted
        /\ metrics' = Some([accuracy |-> accuracy_score(y_test, predicted),
                            precision |-> precision_score(y_test, predicted),
                            recall |-> recall_score(y_test, predicted),
                            f1 |-> f1_score(y_test, predicted)])
        /\ confusion_mat' = Some(confusion_matrix(y_test, predicted))
    /\ pcTrain' = "plot"
    /\ UNCHANGED <<vizVars, runVars, ciVars, fnVars, disk, preVars, rngPerm, tX, y, train_idx, test_idx,
                   X_train, X_test, y_train, y_test, model, appVars>>
    /\ UNCHANGED save_output

\* cell 6: draw the confusion matrix with the tick labels Negative, Positive
NbTrainPlot ==
    /\ pcTrain = "plot"
    /\ pcTrain' = "save"
    /\ UNCHANGED <<vizVars, runVars, ciVars, fnVars, disk, preVars, rngPerm, tX, y, train_idx, test_idx,
                   X_train, X_test, y_train, y_test, model, y_pred, metrics,
                   confusion_mat, appVars>>
    /\ UNCHANGED save_output

\* print(f"Model saved to {model_path}")
SavedMessage == "Model saved to ../data/model.pkl"

NbTrainSave_BeforeEvaluation ==
    /\ pcTrain \in {"evaluate", "save"}
    /\ disk' = WriteFile(disk, ModelFile, model[1])
    /\ pcTrain' = IF pcTrain = "save" THEN "done" ELSE pcTrain
    /\ UNCHANGED <<vizVars, runVars, ciVars, fnVars, preVars, rngPerm, tX, y, train_idx, test_idx, X_train,
                   X_test, y_train, y_test, model, y_pred, metrics, confusion_mat,
                   appVars>>
    /\ save_output' = IF pcTrain = "save" THEN Append(save_output, SavedMessage) ELSE save_output

NbTrainSave_AlsoPredictions ==
    /\ pcTrain = "save"
    /\ disk' = WriteFile(WriteFile(disk, ModelFile, model[1]), "predictions.npy", y_pred)
    /\ pcTrain' = "done"
    /\ UNCHANGED <<vizVars, runVars, ciVars, fnVars, preVars, rngPerm, tX, y, train_idx, test_idx, X_train,
                   X_test, y_train, y_test, model, y_pred, metrics, confusion_mat,
                   appVars>>
    /\ save_output' = Append(save_output, SavedMessage)

\* cell 7: write the model, then print the message
NbTrainSave ==
    /\ pcTrain = "save"
    /\ disk' = WriteFile(disk, ModelFile, model[1])
    /\ pcTrain' = "done"
    /\ UNCHANGED <<vizVars, runVars, ciVars, fnVars, preVars, rngPerm, tX, y, train_idx, test_idx, X_train,
                   X_test, y_train, y_test, model, y_pred, metrics, confusion_mat,
                   appVars>>
    /\ save_output' = Append(save_output, SavedMessage)

----------------------------------------------------------------------------
(* The web application behind POST /predict *)

\* the review the CI workflow posts, and one whose words the corpus holds
WebReviews ==
    {<<"T","h","i","s"," ","i","s"," ","a","n"," ","a","m","a","z","i","n","g"," ","m","o","v","i","e","!">>,
     <<"g","o","o","d"," ","f","i","l","m">>}

NotebooksEnded == pcPre \in {"done", "error"} /\ pcTrain \in {"done", "error"}

\* flask run: the app loads the persisted vectorizer and model, and does not
\* come up without them
AppStart ==
    /\ appState = "down"
    /\ NotebooksEnded
    /\ IF VectorizerFile \in DOMAIN disk /\ ModelFile \in DOMAIN disk
       THEN /\ appState' = "up"
            /\ appVectorizer' = Some(disk[VectorizerFile])
            /\ appModel' = Some(disk[ModelFile])
       ELSE /\ appState' = "crashed"
            /\ UNCHANGED <<appVectorizer, appModel>>
    /\ UNCHANGED <<vizVars, runVars, ciVars, fnVars, disk, preVars, rngPerm, trainVars, response>>

LabelOf(prediction) == IF prediction = 1 THEN "positive" ELSE "negative"

Respond_Raw(review, features, prediction) ==
    [review |-> review, features |-> features, prediction |-> prediction,
     label |-> "unknown"]

\* the response to one posted review
Respond(review, features, prediction) ==
    [review |-> review, features |-> features, prediction |-> prediction,
     label |-> LabelOf(prediction)]

\* POST /predict with the form field 'review': vectorize the text, predict,
\* answer with the label
PostPredict ==
    /\ appState = "up"
    /\ \E review \in WebReviews :
        LET features == TransformRow(appVectorizer[1], review)
        IN  \E predicted \in Predictions(appModel[1], <<features>>) :
                response' = Some(Respond(review, features, predicted[1]))
    /\ UNCHANGED <<vizVars, runVars, ciVars, fnVars, disk, preVars, rngPerm, trainVars, appState,
                   appVectorizer, appModel>>

----------------------------------------------------------------------------
(* Spec: a run of the two notebooks and of the web application *)

\* the reviews of the sample datasets
SampleReviews ==
    <<<<"G","o","o","d"," ","<","b",">","f","i","l","m","s","<","/","b",">","!">>,
      <<"i","t"," ","i","s"," ","a"," ","b","a","d"," ","f","i","l","m">>,
      <<"I"," ","a","m"," ","2">>>>

\* the labels of the dataset
SentimentValues == {"positive", "negative"}

\* the dataset of n rows whose reviews are the samples from offset on
Dataset(n, offset, labels) ==
    [review |-> [i \in 1..n |-> SampleReviews[((i - 1 + offset) % Len(SampleReviews)) + 1]],
     sentiment |-> [i \in 1..n |-> PyStr(labels[i])]]

Init ==
    /\ called = "none" /\ arg = <<>> /\ ret = None
    /\ \E n \in 1..MaxRows :
          \E offset \in 0..(Len(SampleReviews) - 1) :
             \E labels \in [1..n -> SentimentValues] :
                disk = (CSV :> Dataset(n, offset, labels))
    /\ rngPerm = <<>>
    /\ pcPre = "clean" /\ data = <<>> /\ tfidf = None /\ X = None
    /\ pcTrain = "load" /\ tX = None /\ y = <<>>
    /\ train_idx = <<>> /\ test_idx = <<>>
    /\ X_train = None /\ X_test = None /\ y_train = <<>> /\ y_test = <<>>
    /\ model = None /\ y_pred = <<>> /\ metrics = None /\ confusion_mat = None
    /\ save_output = <<>>
    /\ appState = "down" /\ appVectorizer = None /\ appModel = None
    /\ response = None
    /\ VizOff /\ FirstRun /\ CiOff

Next ==
    \/ NbPreClean \/ NbPreTokenize \/ NbPreStopwords \/ NbPreLemmatize
    \/ NbPreVectorize \/ NbPreSave
    \/ NbTrainLoad \/ NbTrainSplit \/ NbTrainFit \/ NbTrainEvaluate
    \/ NbTrainPlot \/ NbTrainSave
    \/ AppStart \/ PostPredict

Spec == Init /\ [][Next]_vars

----------------------------------------------------------------------------
(* Claims about the run of the notebooks and the web application (Spec) *)

Elements(seq) == {seq[i] : i \in 1..Len(seq)}

\* the number of reviews of the dataset
NumReviews == Len(disk[CSV]["review"])

\* a stage has started once its output exists, and has finished for every
\* review once its output holds one entry per review
Started(column) == column \in DOMAIN data

Finished(column) == column \in DOMAIN data /\ Len(data[column]) = NumReviews

VectorizeFinished == X # None /\ Len(X[1].rows) = NumReviews

SplitFinished == X_train # None

FitFinished == model # None

EvaluateFinished == metrics # None

\* the files the notebooks have written
Written == DOMAIN disk \ {CSV}

\* clean, tokenize, filter, lemmatize, vectorize, split, fit, evaluate: no
\* stage starts before the preceding one has finished for every review
StagesInOrder ==
    /\ Started("tokens") => Finished("cleaned_review")
    /\ Started("tokens_no_stopwords") => Finished("tokens")
    /\ Started("lemmatized_tokens") => Finished("tokens_no_stopwords")
    /\ Started("final_review") => Finished("lemmatized_tokens")
    /\ X # None => Finished("final_review") /\ VectorizeFinished
    /\ SplitFinished => VectorizeFinished
    /\ FitFinished => SplitFinished
    /\ EvaluateFinished => FitFinished

\* C1 as stated: the stages occur in the order clean, tokenize, stop-word
\* filter, lemmatize, vectorize, split, fit, evaluate, persist, none starting
\* before the preceding one has finished for every review, and artifacts are
\* persisted only after evaluation.
C1_PersistOnlyAfterEvaluation ==
    /\ StagesInOrder
    /\ Written # {} => EvaluateFinished

\* C1 as amended: the stages clean, tokenize, stop-word filter, lemmatize,
\* vectorize, split, fit, evaluate occur in that order, none starting before
\* the preceding one has finished for every review; the vectorizer, the
\* matrix and the labels are persisted after vectorization and before the
\* split, and only the model is persisted after evaluation.
C1_StagesInOrderModelPersistedLast ==
    /\ StagesInOrder
    /\ Written \cap {VectorizerFile, MatrixFile, LabelsFile} # {} => VectorizeFinished
    /\ SplitFinished => {VectorizerFile, MatrixFile, LabelsFile} \subseteq Written
    /\ ModelFile \in Written => EvaluateFinished

\* a full run: every stage finished and the model written
C1_Witness ==
    /\ pcPre = "done" /\ pcTrain = "done"
    /\ EvaluateFinished
    /\ ModelFile \in Written
    /\ NumReviews >= 3

FullRun == pcPre = "done" /\ pcTrain = "done"

\* C2 as stated: after a full run of both notebooks the artifacts written to
\* the data directory are exactly a serialized vectorizer and a serialized
\* model.
C2_OnlyVectorizerAndModel ==
    FullRun => Written = {VectorizerFile, ModelFile}

\* C2 as amended: after a full run of both notebooks the files written to the
\* data directory are exactly four: the serialized vectorizer, the serialized
\* TF-IDF matrix, the label vector and the serialized model.
C2_FourArtifacts ==
    FullRun =>
        /\ Written = {VectorizerFile, MatrixFile, LabelsFile, ModelFile}
        /\ disk[VectorizerFile] = tfidf[1]
        /\ disk[MatrixFile] = X[1]
        /\ Len(disk[LabelsFile]) = NumReviews
        /\ disk[ModelFile] = model[1]

\* both notebooks ran to their last cell, the web application not yet started
C2_Witness ==
    /\ FullRun
    /\ appState = "down"
    /\ MatrixFile \in Written /\ LabelsFile \in Written

\* C3: every POST to /predict with the form field 'review' is answered with
\* exactly one label out of two values, positive or negative, computed by
\* the persisted vectorizer and the persisted model.
C3_OneBinaryLabel ==
    response # None =>
        /\ response[1].label \in {"positive", "negative"}
        /\ response[1].label = "positive" <=> response[1].prediction = 1
        /\ response[1].prediction \in disk[ModelFile].classes
        /\ response[1].features = TransformRow(disk[VectorizerFile], response[1].review)
        /\ appVectorizer = Some(disk[VectorizerFile])
        /\ appModel = Some(disk[ModelFile])

\* the review the CI workflow posts, answered
C3_Witness ==
    /\ response # None
    /\ response[1].review[1] = "T"
    /\ response[1].label = "positive"

\* C4: the split gives a training set and a test set that are disjoint and
\* together hold every row exactly once, each feature row still paired with
\* its own label; the model is evaluated only on rows that were not in the
\* training set.
C4_DisjointCoveringPaired ==
    SplitFinished =>
        /\ Elements(train_idx) \cap Elements(test_idx) = {}
        /\ Elements(train_idx) \cup Elements(test_idx) = 1..Len(y)
        /\ Len(train_idx) + Len(test_idx) = Len(y)
        /\ Len(X_train[1].rows) = Len(train_idx) /\ Len(y_train) = Len(train_idx)
        /\ Len(X_test[1].rows) = Len(test_idx) /\ Len(y_test) = Len(test_idx)
        /\ \A k \in 1..Len(train_idx) :
            /\ X_train[1].rows[k] = tX[1].rows[train_idx[k]]
            /\ y_train[k] = y[train_idx[k]]
        /\ \A k \in 1..Len(test_idx) :
            /\ X_test[1].rows[k] = tX[1].rows[test_idx[k]]
            /\ y_test[k] = y[test_idx[k]]
        /\ FitFinished => model[1].X = X_train[1] /\ model[1].y = y_train
        /\ EvaluateFinished =>
            /\ Len(y_pred) = Len(test_idx)
            /\ metrics[1].accuracy[1] =
                  Cardinality({k \in 1..Len(test_idx) : y_pred[k] = y[test_idx[k]]})

\* a split of four rows in an order that is not the dataset's, evaluated
C4_Witness ==
    /\ EvaluateFinished
    /\ Len(y) = 4
    /\ train_idx[1] > train_idx[2]
    /\ test_idx[1] # 1

\* C5: for a dataset of N rows the split puts ceil(0.2 * N) rows in the test
\* set and the remaining rows in the training set; for N = 50000 that is
\* 40000 training rows and 10000 test rows.
C5_TestSetIsCeilOfFifth ==
    /\ SplitFinished =>
        /\ 5 * Len(test_idx) >= Len(y)
        /\ 5 * (Len(test_idx) - 1) < Len(y)
        /\ Len(train_idx) = Len(y) - Len(test_idx)
        /\ Len(X_test[1].rows) = Len(test_idx)
        /\ Len(X_train[1].rows) = Len(train_idx)
    /\ NTest(50000) = 10000
    /\ NTrain(50000) = 40000

\* four rows split into three training rows and one test row
C5_Witness ==
    /\ SplitFinished
    /\ Len(y) = 4
    /\ Len(test_idx) = 1
    /\ Len(train_idx) = 3

\* C6: accuracy, precision, recall, F1 and the confusion matrix are computed
\* only from the test labels and the fitted model's predictions on the test
\* rows; the confusion matrix has four entries, non-negative integers that
\* sum to the test-set size, with rows the true label and columns the
\* predicted label in the order Negative (0), Positive (1).
C6_FourEntriesNegativePositive ==
    EvaluateFinished =>
        LET cm == confusion_mat[1]
            hits(t, p) == Cardinality({k \in 1..Len(y_test) :
                                          y_test[k] = t /\ y_pred[k] = p})
        IN  /\ y_pred \in Predictions(model[1], X_test[1].rows)
            /\ metrics[1].accuracy = <<hits(0, 0) + hits(1, 1), Len(y_test)>>
            /\ metrics[1].precision = <<hits(1, 1), hits(1, 1) + hits(0, 1)>>
            /\ metrics[1].recall = <<hits(1, 1), hits(1, 1) + hits(1, 0)>>
            /\ metrics[1].f1 = <<2 * hits(1, 1), 2 * hits(1, 1) + hits(0, 1) + hits(1, 0)>>
            /\ cm.labels = <<0, 1>>
            /\ Len(cm.cells) = 2 /\ Len(cm.cells[1]) = 2 /\ Len(cm.cells[2]) = 2
            /\ \A i, j \in 1..2 : cm.cells[i][j] = hits(i - 1, j - 1)
            /\ cm.cells[1][1] + cm.cells[1][2] + cm.cells[2][1] + cm.cells[2][2]
                   = Len(y_test)

\* what cells 2 to 6 make of one review: cleaned, tokenized, filtered,
\* lemmatized and joined
FinalReview(review) ==
    Join(lemmatize_words(remove_stopwords(word_tokenize(clean_text(review)))))

\* the distinct terms of the documents
DistinctTerms(docs) == UNION {Terms(docs[i]) : i \in 1..Len(docs)}

MinOf(a, b) == IF a <= b THEN a ELSE b

\* C11: vectorization turns the N final reviews into a matrix of exactly N
\* rows, row i holding the term counts of review i, every row over the same
\* vocabulary, whose size is min(5000, number of distinct terms); for every
\* smaller limit k the vocabulary the vectorizer would keep has min(k, number
\* of distinct terms) terms of the corpus.
C11_OneRowPerReviewOverOneVocabulary ==
    X # None =>
        LET docs == data["final_review"]
            vocab == tfidf[1].vocabulary
        IN  /\ Len(docs) = NumReviews
            /\ Len(X[1].rows) = NumReviews
            /\ \A i \in 1..NumReviews :
                /\ docs[i] = FinalReview(disk[CSV]["review"][i])
                /\ DOMAIN X[1].rows[i] = vocab
                /\ \A t \in vocab : X[1].rows[i][t] = Count(Analyze(docs[i]), t)
            /\ Cardinality(vocab) <= MaxFeatures
            /\ Cardinality(vocab) = MinOf(MaxFeatures, Cardinality(DistinctTerms(docs)))
            /\ \A k \in 1..MaxLimit :
                /\ Vocabulary(docs, k) \subseteq DistinctTerms(docs)
                /\ Cardinality(Vocabulary(docs, k))
                       = MinOf(k, Cardinality(DistinctTerms(docs)))

\* three reviews vectorized over three terms, the first review holding two
\* of them and the third none, where a limit of one term would cut the
\* vocabulary
C11_Witness ==
    /\ X # None
    /\ NumReviews = 3
    /\ Cardinality(tfidf[1].vocabulary) = 3
    /\ Cardinality({t \in tfidf[1].vocabulary : X[1].rows[1][t] > 0}) = 2
    /\ \A t \in tfidf[1].vocabulary : X[1].rows[3][t] = 0
    /\ Cardinality(Vocabulary(data["final_review"], 1)) = 1

\* C15 as stated: every library step of the pipeline (TF-IDF vectorization,
\* train/test split, logistic-regression fit and predict) is invoked with
\* the library's default parameters.
C15_AllDefaultParameters ==
    /\ tfidf # None => Some(tfidf[1].max_features) = DefaultMaxFeatures
    /\ SplitFinished =>
          /\ TestSizeNum * DefaultTestSizeDen = DefaultTestSizeNum * TestSizeDen
          /\ Len(test_idx) = (DefaultTestSizeNum * Len(y) + DefaultTestSizeDen - 1)
                                 \div DefaultTestSizeDen
    /\ FitFinished =>
          /\ model[1].max_iter = DefaultMaxIter
          /\ Some(model[1].random_state) = DefaultRandomState

\* C15 as amended: the library steps are invoked with five parameters that
\* are not the defaults: the vectorizer keeps at most 5000 features (default:
\* no limit), the split holds out a fifth of the rows (default: a quarter) in
\* the order the seed 42 fixes (default: unseeded), and the logistic
\* regression is fitted with max_iter 1000 (default: 100) and random_state 42
\* (default: none).
C15_FiveParametersSet ==
    /\ tfidf # None =>
          /\ tfidf[1].max_features = 5000
          /\ Some(tfidf[1].max_features) # DefaultMaxFeatures
    /\ TestSizeNum * 5 = TestSizeDen
    /\ TestSizeNum * DefaultTestSizeDen # DefaultTestSizeNum * TestSizeDen
    /\ SplitFinished =>
          /\ Len(test_idx) = (Len(y) + 4) \div 5
          /\ Len(y) \in DOMAIN rngPerm
          /\ test_idx \o train_idx = rngPerm[Len(y)]
    /\ FitFinished =>
          /\ model[1].max_iter = 1000
          /\ model[1].max_iter # DefaultMaxIter
          /\ model[1].random_state = 42
          /\ Some(model[1].random_state) # DefaultRandomState

\* a full run: the vectorizer fitted, four rows split, the model fitted
C15_Witness ==
    /\ FullRun
    /\ tfidf # None /\ SplitFinished /\ FitFinished
    /\ Len(y) = 4
    /\ ModelFile \in Written /\ disk[ModelFile].max_iter = MaxIter

\* C20: the model is fitted only after the split and on the training rows
\* only (the rows train_idx selects, none of which is a test row); the
\* predictions are those of that model on the test rows and the metrics those
\* of these predictions; model.pkl holds the model that was evaluated; once
\* fitted, the model is never fitted again.
C20_FittedOnceOnTrainingRowsThenEvaluatedAndSaved ==
    /\ [](FitFinished =>
            /\ SplitFinished
            /\ model[1].X = SelectRows(tX[1], train_idx)
            /\ model[1].y = SelectEntries(y, train_idx)
            /\ \A i \in 1..Len(train_idx), j \in 1..Len(test_idx) :
                  train_idx[i] # test_idx[j])
    /\ [](EvaluateFinished =>
            /\ FitFinished
            /\ y_pred \in Predictions(model[1], SelectRows(tX[1], test_idx).rows)
            /\ metrics[1].accuracy = accuracy_score(SelectEntries(y, test_idx), y_pred)
            /\ metrics[1].f1 = f1_score(SelectEntries(y, test_idx), y_pred))
    /\ [](ModelFile \in Written =>
            /\ EvaluateFinished
            /\ disk[ModelFile] = model[1])
    /\ [][FitFinished => model' = model]_vars

\* the model fitted on three training rows, evaluated on the fourth row and
\* written to model.pkl
C20_Witness ==
    /\ pcTrain = "done"
    /\ Len(train_idx) = 3 /\ Len(test_idx) = 1
    /\ FitFinished /\ EvaluateFinished
    /\ ModelFile \in Written /\ disk[ModelFile].X = X_train[1]

----------------------------------------------------------------------------
(* SpecPre: the preprocessing notebook alone, all its cells, on datasets   *)
(* whose sentiment column holds any value                                  *)

\* what a cell of the sentiment column can hold: the two labels, a label in
\* another spelling, a label that is a number already
SentimentCells == {PyStr("positive"), PyStr("negative"), PyStr("Positive"), PyInt(1)}

\* the reviews of the datasets: the samples and a review that repeats a word
ChartReviews == SampleReviews \o <<<<"F","i","l","m"," ","f","i","l","m","s">>>>

InitPre ==
    /\ called = "none" /\ arg = <<>> /\ ret = None
    /\ \E n \in 1..MaxLabels :
          \E cells \in [1..n -> SentimentCells] :
             disk = (CSV :> [review |-> [i \in 1..n |->
                                           ChartReviews[((i - 1) % Len(ChartReviews)) + 1]],
                             sentiment |-> cells])
    /\ rngPerm = <<>>
    /\ pcPre = "clean" /\ data = <<>> /\ tfidf = None /\ X = None
    /\ pcTrain = "off" /\ tX = None /\ y = <<>>
    /\ train_idx = <<>> /\ test_idx = <<>>
    /\ X_train = None /\ X_test = None /\ y_train = <<>> /\ y_test = <<>>
    /\ model = None /\ y_pred = <<>> /\ metrics = None /\ confusion_mat = None
    /\ save_output = <<>>
    /\ appState = "off" /\ appVectorizer = None /\ appModel = None
    /\ response = None
    /\ pcViz = "positive"
    /\ positive_word_freq_df = None /\ fig_positive = None
    /\ negative_word_freq_df = None /\ fig_negative = None
    /\ FirstRun /\ CiOff

NextPre ==
    \/ NbPreClean \/ NbPreTokenize \/ NbPreStopwords \/ NbPreLemmatize
    \/ NbPreVectorize \/ NbPreSave
    \/ NbPrePositiveChart \/ NbPreNegativeChart

SpecPre == InitPre /\ [][NextPre]_vars

----------------------------------------------------------------------------
(* Claims about the preprocessing notebook (SpecPre) *)

\* C12: label conversion maps 'positive' to 1 and 'negative' to 0; whatever
\* the sentiment column holds, every saved label is 0 or 1, there is one
\* saved label per review, and the i-th saved label is the converted label
\* of the i-th review (1 exactly when its sentiment is 'positive').
C12_SavedLabelsAreBinaryInReviewOrder ==
    LabelsFile \in DOMAIN disk =>
        LET saved == disk[LabelsFile]
            cells == disk[CSV]["sentiment"]
        IN  /\ Len(saved) = NumReviews
            /\ \A i \in 1..NumReviews :
                /\ saved[i] \in {0, 1}
                /\ cells[i] = PyStr("positive") => saved[i] = 1
                /\ cells[i] = PyStr("negative") => saved[i] = 0
                /\ saved[i] = 1 => cells[i] = PyStr("positive")
                /\ data["sentiment"][i] = PyInt(saved[i])

\* the labels of three reviews saved, the first 'negative', the second
\* 'positive', the third in another spelling
C12_Witness ==
    /\ LabelsFile \in DOMAIN disk
    /\ NumReviews = 3
    /\ disk[CSV]["sentiment"] = <<PyStr("negative"), PyStr("positive"), PyStr("Positive")>>
    /\ disk[LabelsFile] = <<0, 1, 0>>

\* the words of the reviews as white space separates them
PlainWords(reviews) == Runs(Join(reviews), AllChars \ Whitespace, <<>>)

\* the cleaned reviews of the dataset whose sentiment is the given one
CleanedReviewsOf(sentiment) ==
    LET at == SelectSeq([i \in 1..NumReviews |-> i],
                        LAMBDA i : disk[CSV]["sentiment"][i] = PyStr(sentiment))
    IN  [k \in 1..Len(at) |-> clean_text(disk[CSV]["review"][at[k]])]

\* the chart shows the words of the reviews with the highest counts
ShowsTopWords(fig, reviews) ==
    LET words == PlainWords(reviews)
        shown == {fig[i].word : i \in 1..Len(fig)}
    IN  /\ Len(fig) = MinOf(TopWords, Cardinality(Elements(words)))
        /\ \A i \in 1..Len(fig) :
            /\ fig[i].word \in Elements(words)
            /\ fig[i].count = Count(words, fig[i].word)
        /\ \A i, j \in 1..Len(fig) : i < j => fig[i].count >= fig[j].count
        /\ \A w \in Elements(words) \ shown :
              \A i \in 1..Len(fig) : Count(words, w) <= fig[i].count

ShowsTopEntries(fig, df, reviews) ==
    LET words == PlainWords(reviews)
    IN  /\ [w \in {df[i].word : i \in 1..Len(df)} |->
               (CHOOSE row \in Elements(df) : row.word = w).count]
              \in ProcessText(Join(reviews))
        /\ \A i, j \in 1..Len(df) : i # j => df[i].word # df[j].word
        /\ \A i, j \in 1..Len(df) : i < j => df[i].count >= df[j].count
        /\ Len(fig) <= TopWords
        /\ fig = SubSeq(df, 1, MinOf(TopWords, Len(df)))
        /\ \A i \in 1..Len(df) :
            /\ df[i].count > 0
            /\ \/ " " \in Elements(df[i].word)
               \/ /\ df[i].word \in Elements(words) \ WordCloudStopwords
                  /\ df[i].count <= Count(words, df[i].word)
                                      + Count(words, Append(df[i].word, "s"))
        /\ \A k \in 1..MaxLimit :
            /\ Len(HeadRows(df, k)) = MinOf(k, Len(df))
            /\ \A i \in 1..Len(HeadRows(df, k)) : HeadRows(df, k)[i] = df[i]
            /\ \A i \in 1..Len(HeadRows(df, k)), j \in 1..Len(df) :
                  j > Len(HeadRows(df, k)) => HeadRows(df, k)[i].count >= df[j].count

----------------------------------------------------------------------------
(* SpecRerun: the two notebooks run, then run a second time, on the same   *)
(* dataset or on an edited one; cell 7 can be stopped before it is through *)

\* cell 7 stopped before np.save (an interrupt, an exception of a dump): the
\* labels are converted and the files before the stop are written
NbPreSaveInterrupted ==
    /\ pcPre = "save"
    /\ LET converted == WithColumn(data, "sentiment", [i \in 1..Len(data["sentiment"]) |-> ToBinary(data["sentiment"][i])])
       IN  /\ data' = converted
           /\ \/ disk' = WriteFile(disk, VectorizerFile, tfidf[1])
              \/ disk' = WriteFile(WriteFile(disk, VectorizerFile, tfidf[1]),
                                   MatrixFile, X[1])
    /\ pcPre' = "error"
    /\ UNCHANGED <<vizVars, runVars, ciVars, fnVars, tfidf, X, rngPerm, trainVars,
                   appVars>>

\* what a run leaves in the kernels when both notebooks have ended
RunRecord ==
    [dataset |-> disk[CSV],
     split |-> IF X_train # None THEN Some([train_idx |-> train_idx, test_idx |-> test_idx])
               ELSE None,
     model |-> model]

\* both kernels restarted, all cells to be run again from the first
Restarted ==
    /\ run = 1 /\ run' = 2
    /\ pcPre \in {"done", "error"} /\ pcTrain \in {"done", "error"}
    /\ first_run' = Some(RunRecord)
    /\ pcPre' = "clean" /\ data' = <<>> /\ tfidf' = None /\ X' = None
    /\ pcTrain' = "load" /\ tX' = None /\ y' = <<>>
    /\ train_idx' = <<>> /\ test_idx' = <<>>
    /\ X_train' = None /\ X_test' = None /\ y_train' = <<>> /\ y_test' = <<>>
    /\ model' = None /\ y_pred' = <<>> /\ metrics' = None /\ confusion_mat' = None
    /\ save_output' = <<>>

\* the rows of a dataset in reverse order
Reversed(dataset) ==
    [c \in DOMAIN dataset |->
        [i \in 1..Len(dataset[c]) |-> dataset[c][Len(dataset[c]) + 1 - i]]]

\* a dataset without its last row
WithoutLastRow(dataset) ==
    [c \in DOMAIN dataset |-> SubSeq(dataset[c], 1, Len(dataset[c]) - 1)]

\* the second run, on the dataset of the first
RunAgain ==
    /\ Restarted
    /\ UNCHANGED <<vizVars, ciVars, fnVars, disk, rngPerm, appVars>>

\* the second run, after the dataset file was replaced by an edited one
RunAgainOnEditedDataset ==
    /\ Restarted
    /\ \E edited \in {Reversed(disk[CSV]), WithoutLastRow(disk[CSV])} :
          /\ Len(edited["review"]) >= 2
          /\ disk' = WriteFile(disk, CSV, edited)
    /\ UNCHANGED <<vizVars, ciVars, fnVars, rngPerm, appVars>>

InitRerun ==
    /\ called = "none" /\ arg = <<>> /\ ret = None
    /\ \E n \in 2..MaxRowsRerun :
          \E labels \in [1..n -> SentimentValues] :
             disk = (CSV :> Dataset(n, 0, labels))
    /\ rngPerm = <<>>
    /\ pcPre = "clean" /\ data = <<>> /\ tfidf = None /\ X = None
    /\ pcTrain = "load" /\ tX = None /\ y = <<>>
    /\ train_idx = <<>> /\ test_idx = <<>>
    /\ X_train = None /\ X_test = None /\ y_train = <<>> /\ y_test = <<>>
    /\ model = None /\ y_pred = <<>> /\ metrics = None /\ confusion_mat = None
    /\ save_output = <<>>
    /\ appState = "off" /\ appVectorizer = None /\ appModel = None
    /\ response = None
    /\ VizOff /\ FirstRun /\ CiOff

NextRerun ==
    \/ NbPreClean \/ NbPreTokenize \/ NbPreStopwords \/ NbPreLemmatize
    \/ NbPreVectorize \/ NbPreSave \/ NbPreSaveInterrupted
    \/ NbTrainLoad \/ NbTrainSplit \/ NbTrainFit \/ NbTrainEvaluate
    \/ NbTrainPlot \/ NbTrainSave
    \/ RunAgain \/ RunAgainOnEditedDataset

SpecRerun == InitRerun /\ [][NextRerun]_vars

----------------------------------------------------------------------------
(* Claims about repeated runs (SpecRerun) *)

\* C13: two runs of the pipeline on the same dataset give the same train/test
\* partition and the same fitted model: the split draws the permutation of the
\* fixed seed 42, and the fit is fixed by its parameters and the training rows.
C13_SameSplitAndModel ==
    (run = 2 /\ first_run[1].dataset = disk[CSV]) =>
        /\ (X_train # None /\ first_run[1].split # None) =>
              /\ train_idx = first_run[1].split[1].train_idx
              /\ test_idx = first_run[1].split[1].test_idx
        /\ (model # None /\ first_run[1].model # None) => model = first_run[1].model

\* a second run on the same three rows, split and fitted as the first was
C13_Witness ==
    /\ run = 2
    /\ first_run[1].dataset = disk[CSV]
    /\ first_run[1].model # None
    /\ model = first_run[1].model
    /\ pcPre = "done" /\ pcTrain = "done"
    /\ Len(y) = 3
    /\ test_idx # <<1>>

\* the matrix and the labels one preprocessing run makes of a dataset
MatrixOf(dataset) ==
    LET docs == [i \in 1..Len(dataset["review"]) |-> FinalReview(dataset["review"][i])]
    IN  Transform(FitVectorizer(docs, MaxFeatures), docs)

LabelsOf(dataset) ==
    [i \in 1..Len(dataset["sentiment"]) |-> ToBinary(dataset["sentiment"][i]).int]

\* the datasets the notebooks have been run on
DatasetsRun == {disk[CSV]} \cup (IF first_run = None THEN {} ELSE {first_run[1].dataset})

\* C19: whenever model training has loaded its inputs, the loaded matrix and
\* the loaded label vector have the same number of rows and come from the
\* same preprocessing run, so that row i and label i describe the same
\* review, also when the preprocessing notebook was re-run or stopped between
\* writing tfidf_matrix.pkl and writing labels.npy.
C19_LoadedMatrixAndLabelsAgree ==
    (tX # None /\ Len(y) > 0) =>
        /\ Len(tX[1].rows) = Len(y)
        /\ \E dataset \in DatasetsRun :
              tX[1] = MatrixOf(dataset) /\ y = LabelsOf(dataset)

----------------------------------------------------------------------------
(* SpecCI: the step 'Run Flask app and test predictions' of the CI job *)

\* sleep 5: the seconds the step waits after starting the app
SleepSeconds == 5

\* the longest start-up of the app, in seconds, that the model considers
MaxStartup == 7

\* curl's exit status when the connection is refused
CurlCouldNotConnect == 7

\* the model files a checkout can hold: none, or the vectorizer and the model
\* that a run of the notebooks on three reviews has written
Checkouts ==
    LET runs == {r \in {Dataset(3, 0, labels) : labels \in [1..3 -> SentimentValues]}
                          \X RowOrders(3) :
                    Cardinality({LabelsOf(r[1])[TrainIndices(r[2], 3)[k]] :
                                    k \in 1..Len(TrainIndices(r[2], 3))}) = 2}
    IN  {<<>>} \cup
        {(VectorizerFile :>
             FitVectorizer([i \in 1..3 |-> FinalReview(r[1]["review"][i])], MaxFeatures))
         @@ (ModelFile :>
             Fit(SelectRows(MatrixOf(r[1]), TrainIndices(r[2], 3)),
                 SelectEntries(LabelsOf(r[1]), TrainIndices(r[2], 3)))) : r \in runs}

\* nohup flask run --port=3000 &: the app starts in the background and the
\* step goes on at once; the app will be listening after its start-up time
CiStartFlask ==
    /\ ciStep = "start"
    /\ \E seconds \in 1..MaxStartup : startup' = Some(seconds)
    /\ appState' = "starting"
    /\ ciStep' = "sleep"
    /\ UNCHANGED <<clock, http_status, curl_exit, step_exit>>
    /\ UNCHANGED <<vizVars, runVars, fnVars, disk, preVars, rngPerm, trainVars,
                   appVectorizer, appModel, response>>

\* the app's start-up is over, and no step of the script comes before it
StartupOver == appState = "starting" /\ clock >= startup[1]

\* the app has loaded the persisted vectorizer and model and listens on port
\* 3000; without the files it exits
CiFlaskListening ==
    /\ StartupOver
    /\ IF VectorizerFile \in DOMAIN disk /\ ModelFile \in DOMAIN disk
       THEN /\ appState' = "up"
            /\ appVectorizer' = Some(disk[VectorizerFile])
            /\ appModel' = Some(disk[ModelFile])
       ELSE /\ appState' = "crashed"
            /\ UNCHANGED <<appVectorizer, appModel>>
    /\ UNCHANGED <<vizVars, runVars, ciVars, fnVars, disk, preVars, rngPerm, trainVars,
                   response>>

\* sleep 5: one second passes
CiSleep ==
    /\ ciStep = "sleep"
    /\ clock < SleepSeconds
    /\ ~StartupOver
    /\ clock' = clock + 1
    /\ UNCHANGED <<ciStep, startup, http_status, curl_exit, step_exit>>
    /\ UNCHANGED <<vizVars, runVars, fnVars, disk, preVars, rngPerm, trainVars, appVars>>

\* curl -X POST -F "review=This is an amazing movie!" .../predict, run by
\* bash -e: with nobody listening curl exits 7 and the step ends with that
\* status; with the app listening curl prints whatever the app answers, a
\* prediction or the error page of a handler that raised, and exits 0
CiCurl ==
    /\ ciStep = "sleep"
    /\ clock = SleepSeconds
    /\ ~StartupOver
    /\ IF appState # "up"
       THEN /\ curl_exit' = Some(CurlCouldNotConnect)
            /\ step_exit' = Some(CurlCouldNotConnect)
            /\ ciStep' = "failed"
            /\ UNCHANGED <<http_status, response>>
       ELSE /\ curl_exit' = Some(0)
            /\ ciStep' = "pkill"
            /\ step_exit' = step_exit
            /\ \/ /\ http_status' = Some(500)
                  /\ response' = response
               \/ /\ http_status' = Some(200)
                  /\ LET review == <<"T","h","i","s"," ","i","s"," ","a","n"," ","a","m",
                                     "a","z","i","n","g"," ","m","o","v","i","e","!">>
                         features == TransformRow(appVectorizer[1], review)
                     IN  \E predicted \in Predictions(appModel[1], <<features>>) :
                           response' = Some(Respond(review, features, predicted[1]))
    /\ UNCHANGED <<clock, startup>>
    /\ UNCHANGED <<vizVars, runVars, fnVars, disk, preVars, rngPerm, trainVars, appState,
                   appVectorizer, appModel>>

\* pkill -f "flask run": the last command of the script, whose status is the
\* step's; it is 0 when a process was signalled
CiPkill ==
    /\ ciStep = "pkill"
    /\ appState' = "down"
    /\ step_exit' = Some(0)
    /\ ciStep' = "passed"
    /\ UNCHANGED <<clock, startup, http_status, curl_exit>>
    /\ UNCHANGED <<vizVars, runVars, fnVars, disk, preVars, rngPerm, trainVars,
                   appVectorizer, appModel, response>>

InitCI ==
    /\ called = "none" /\ arg = <<>> /\ ret = None
    /\ disk \in Checkouts
    /\ rngPerm = <<>>
    /\ pcPre = "off" /\ data = <<>> /\ tfidf = None /\ X = None
    /\ pcTrain = "off" /\ tX = None /\ y = <<>>
    /\ train_idx = <<>> /\ test_idx = <<>>
    /\ X_train = None /\ X_test = None /\ y_train = <<>> /\ y_test = <<>>
    /\ model = None /\ y_pred = <<>> /\ metrics = None /\ confusion_mat = None
    /\ save_output = <<>>
    /\ appState = "down" /\ appVectorizer = None /\ appModel = None
    /\ response = None
    /\ VizOff /\ FirstRun
    /\ ciStep = "start" /\ clock = 0 /\ startup = None
    /\ http_status = None /\ curl_exit = None /\ step_exit = None

NextCI == CiStartFlask \/ CiFlaskListening \/ CiSleep \/ CiCurl \/ CiPkill

SpecCI == InitCI /\ [][NextCI]_vars

----------------------------------------------------------------------------
(* Claims checked under SpecCI *)

\* C17: in the CI job the POST to /predict is sent only after the app has
\* finished initialising and listens on port 3000: when curl has run, the app
\* was up.
C17_PostOnlyAfterAppListens ==
    curl_exit # None => appState \in {"up", "down"} /\ appVectorizer # None

\* the answer to the POST is a prediction
YieldedPrediction ==
    /\ http_status = Some(200)
    /\ response # None
    /\ response[1].label \in {"positive", "negative"}

\* C18: the step fails whenever the POST does not yield a prediction (refused
\* connection, HTTP error status, response without a label).
C18_StepFailsWithoutPrediction ==
    (ciStep \in {"passed", "failed"} /\ ~YieldedPrediction) => ciStep = "failed"

----------------------------------------------------------------------------
(* SpecSave: the two notebooks, where the save cell of the training notebook
   can fail *)

\* what open(model_path, 'wb') leaves when pickle.dump raises after it: a
\* file that holds no complete model
Incomplete == [incomplete |-> TRUE]

NbTrainSaveFails_PrintsFirst ==
    /\ pcTrain = "save"
    /\ \/ disk' = disk
       \/ disk' = WriteFile(disk, ModelFile, Incomplete)
    /\ save_output' = Append(save_output, SavedMessage)
    /\ pcTrain' = "error"
    /\ UNCHANGED <<vizVars, runVars, ciVars, fnVars, preVars, rngPerm, tX, y, train_idx, test_idx, X_train,
                   X_test, y_train, y_test, model, y_pred, metrics, confusion_mat,
                   appVars>>

\* cell 7 when the file cannot be written: open raises (FileNotFoundError when
\* the data directory does not exist) and no file is touched, or pickle.dump
\* raises after open has created or emptied the file; the exception ends the
\* cell before print
NbTrainSaveFails ==
    /\ pcTrain = "save"
    /\ \/ disk' = disk
       \/ disk' = WriteFile(disk, ModelFile, Incomplete)
    /\ pcTrain' = "error"
    /\ UNCHANGED <<vizVars, runVars, ciVars, fnVars, preVars, rngPerm, tX, y, train_idx, test_idx, X_train,
                   X_test, y_train, y_test, model, y_pred, metrics, confusion_mat,
                   save_output, appVars>>

NextSave ==
    \/ NbPreClean \/ NbPreTokenize \/ NbPreStopwords \/ NbPreLemmatize
    \/ NbPreVectorize \/ NbPreSave
    \/ NbTrainLoad \/ NbTrainSplit \/ NbTrainFit \/ NbTrainEvaluate
    \/ NbTrainPlot \/ NbTrainSave \/ NbTrainSaveFails

SpecSave == Init /\ [][NextSave]_vars

----------------------------------------------------------------------------
(* Claims checked under SpecSave *)

\* the save cell raised: the cells before it had all run
SaveRaised == pcTrain = "error" /\ EvaluateFinished

\* C21: when opening or writing the model file fails, the save cell raises,
\* "Model saved to ..." is not printed, and the fitted model and the metrics
\* in memory are unchanged; the message is printed only after pickle.dump has
\* completed, that is when model.pkl holds the model.
C21_FailedSaveIsSilentAndLeavesModel ==
    /\ [](SaveRaised => save_output = <<>> /\ FitFinished)
    /\ [][pcTrain = "save" =>
            /\ model' = model /\ metrics' = metrics /\ y_pred' = y_pred
            /\ confusion_mat' = confusion_mat
            /\ pcTrain' \in {"done", "error"}
            /\ pcTrain' = "error" => save_output' = save_output]_vars
    /\ [](save_output # <<>> =>
            /\ save_output = <<SavedMessage>>
            /\ pcTrain = "done"
            /\ ModelFile \in DOMAIN disk /\ disk[ModelFile] = model[1])

\* pickle.dump raised after open: the cell ended in an error with an
\* incomplete model.pkl, the model and the metrics still in memory
C21_Witness ==
    /\ SaveRaised
    /\ ModelFile \in DOMAIN disk /\ disk[ModelFile] = Incomplete
    /\ model # None /\ metrics # None
    /\ save_output = <<>>

----------------------------------------------------------------------------
(* SpecRelabel: the preprocessing notebook, whose last cell is then executed
   again in the same session *)

\* cell 7 executed again after the notebook has run: the labels, by now
\* numbers, are converted once more, and the three files are written again
NbPreSaveAgain ==
    /\ pcPre \in {"done", "saved again"}
    /\ LET converted == WithColumn(data, "sentiment", [i \in 1..Len(data["sentiment"]) |-> ToBinary(data["sentiment"][i])])
       IN  /\ data' = converted
           /\ disk' = WriteFile(WriteFile(WriteFile(disk,
                          VectorizerFile, tfidf[1]),
                          MatrixFile, X[1]),
                          LabelsFile, Values(converted["sentiment"]))
    /\ pcPre' = "saved again"
    /\ UNCHANGED <<vizVars, runVars, ciVars, fnVars, tfidf, X, rngPerm, trainVars, appVars>>

NextRelabel ==
    \/ NbPreClean \/ NbPreTokenize \/ NbPreStopwords \/ NbPreLemmatize
    \/ NbPreVectorize \/ NbPreSave
    \/ NbPreSaveAgain

SpecRelabel == InitPre /\ [][NextRelabel]_vars

\* C23: executing the label-conversion cell a second time in the same
\* session, when the labels are already 0/1, sets every label to 0 (only the
\* string 'positive' maps to 1); the labels saved after that are all 0.
C23_SecondConversionZeroesLabels ==
    pcPre = "saved again" =>
        /\ \A i \in 1..Len(data["sentiment"]) : data["sentiment"][i] = PyInt(0)
        /\ disk[LabelsFile] = [i \in 1..Len(disk[CSV]["sentiment"]) |-> 0]

\* the cell executed twice on a dataset with a positive review, whose label
\* the first execution had saved as 1
C23_Witness ==
    /\ pcPre = "saved again"
    /\ disk[CSV]["sentiment"] = <<PyStr("positive"), PyStr("negative"), PyStr("positive")>>
    /\ disk[LabelsFile] = <<0, 0, 0>>
    /\ Len(X[1].rows) = 3

----------------------------------------------------------------------------
(* Frame of the preprocessing cells (SpecPre) *)

\* the column each cell up to joining adds
NewColumn ==
    [clean |-> "cleaned_review", tokenize |-> "tokens",
     stopwords |-> "tokens_no_stopwords", lemmatize |-> "lemmatized_tokens",
     vectorize |-> "final_review"]

\* the frame a cell starts from: the one read_csv gives in the first cell,
\* the one in memory in the others
FrameBefore == IF pcPre = "clean" THEN disk[CSV] ELSE data

\* C25: each preprocessing step up to joining writes only its own new column
\* and leaves 'review', every earlier column and the number and order of the
\* rows unchanged; label conversion is the only step that overwrites an
\* existing column ('sentiment').
C25_EachStepWritesOnlyItsColumn ==
    [][/\ (pcPre \in DOMAIN NewColumn /\ pcPre' # pcPre) =>
            /\ NewColumn[pcPre] \notin DOMAIN FrameBefore
            /\ DOMAIN data' = DOMAIN FrameBefore \cup {NewColumn[pcPre]}
            /\ \A c \in DOMAIN FrameBefore : data'[c] = FrameBefore[c]
            /\ Len(data'[NewColumn[pcPre]]) = Len(FrameBefore["review"])
       /\ (pcPre = "save" /\ pcPre' # pcPre) =>
            /\ DOMAIN data' = DOMAIN data
            /\ \A c \in DOMAIN data \ {"sentiment"} : data'[c] = data[c]
            /\ Len(data'["sentiment"]) = Len(data["review"])
       /\ pcPre' = pcPre => data' = data]_vars

\* the notebook has run on three reviews: the frame holds the two columns of
\* the dataset and the five new ones, 'review' as in the file and 'sentiment'
\* overwritten
C25_Witness ==
    /\ pcPre = "done"
    /\ DOMAIN data = {"review", "sentiment"} \cup {NewColumn[k] : k \in DOMAIN NewColumn}
    /\ Len(data["review"]) = 3
    /\ data["review"] = disk[CSV]["review"]
    /\ data["sentiment"] # disk[CSV]["sentiment"]
    /\ data["cleaned_review"] # data["review"]

----------------------------------------------------------------------------
(* SpecTestEdit: the two notebooks run twice, the second time after a review
   of the first run's test set was replaced in the dataset file *)

\* a dataset with the review of row i replaced
WithReview(dataset, i, review) ==
    [c \in DOMAIN dataset |->
        IF c = "review" THEN [dataset[c] EXCEPT ![i] = review] ELSE dataset[c]]

\* the second run, after one review that the first run held out for testing
\* was replaced by another text, its label kept
RunAgainOnEditedTestReview ==
    /\ Restarted
    /\ SplitFinished
    /\ \E k \in 1..Len(test_idx), j \in 1..Len(SampleReviews) :
          /\ SampleReviews[j] # disk[CSV]["review"][test_idx[k]]
          /\ disk' = WriteFile(disk, CSV,
                               WithReview(disk[CSV], test_idx[k], SampleReviews[j]))
    /\ UNCHANGED <<vizVars, ciVars, fnVars, rngPerm, appVars>>

NextTestEdit ==
    \/ NbPreClean \/ NbPreTokenize \/ NbPreStopwords \/ NbPreLemmatize
    \/ NbPreVectorize \/ NbPreSave
    \/ NbTrainLoad \/ NbTrainSplit \/ NbTrainFit \/ NbTrainEvaluate
    \/ NbTrainPlot \/ NbTrainSave
    \/ RunAgainOnEditedTestReview

SpecTestEdit == InitRerun /\ [][NextTestEdit]_vars

\* the vectorizer that fit_transform fits on the final reviews of a dataset
VectorizerOf(dataset) ==
    FitVectorizer([i \in 1..Len(dataset["review"]) |-> FinalReview(dataset["review"][i])],
                  MaxFeatures)

\* the matrix that the training notebook loaded is the one preprocessing made
\* of the dataset now in the file (not one left by an earlier run)
LoadedOfDataset == tX # None /\ tX[1] = MatrixOf(disk[CSV])

\* C24: the vocabulary and the document frequencies (hence the IDF weights)
\* are fitted on all N reviews before the split, so the features of the
\* training rows, and the model fitted on them, depend on the reviews that
\* end up in the test set: the model is fitted on training rows whose
\* columns and frequencies are those of all N reviews, and after a change of
\* test-set reviews only, the split and the training labels are the same and
\* the model is the same as before if the fitted vectorizer is.
C24_TrainingFeaturesUseAllReviews ==
    /\ (FitFinished /\ LoadedOfDataset) =>
          /\ model[1].X.n_docs = Len(disk[CSV]["review"])
          /\ model[1].X.n_docs > Len(train_idx)
          /\ model[1].X.df = VectorizerOf(disk[CSV]).df
          /\ \A k \in 1..Len(train_idx) :
                DOMAIN model[1].X.rows[k] = VectorizerOf(disk[CSV]).vocabulary
    /\ (run = 2 /\ FitFinished /\ LoadedOfDataset /\ first_run[1].model # None) =>
          /\ train_idx = first_run[1].split[1].train_idx
          /\ \A k \in 1..Len(train_idx) :
                disk[CSV]["review"][train_idx[k]]
                    = first_run[1].dataset["review"][train_idx[k]]
          /\ model[1].y = first_run[1].model[1].y
          /\ VectorizerOf(disk[CSV]) = VectorizerOf(first_run[1].dataset)
                => model = first_run[1].model

\* a second run in which only a test-set review differs and the model
\* differs: in a training row with two terms, the document frequency of one
\* term has changed and that of the other has not, so the row's normalised
\* TF-IDF values differ from those of the first run
C24_Witness ==
    /\ run = 2 /\ FitFinished /\ LoadedOfDataset /\ first_run[1].model # None
    /\ model # first_run[1].model
    /\ \E k \in 1..Len(train_idx) :
          LET row == model[1].X.rows[k]
              before == first_run[1].model[1].X.df
              after == model[1].X.df
          IN  \E t, u \in DOMAIN row \cap DOMAIN before :
                 /\ row[t] > 0 /\ row[u] > 0
                 /\ after[t] # before[t]
                 /\ after[u] = before[u]
====
